---------------------------- MODULE Spec2Model ----------------------------
(***************************************************************************)
(* Model of the two tools of the repository:                               *)
(*   md5check.py      the verifier (find_md5sum_files, process_md5_file,   *)
(*                    main)                                                *)
(*   md5_recursive.py the generator (iter_files, collect_hashes, main)     *)
(*                                                                         *)
(* Text is modelled as sequences of one-character strings, so that the     *)
(* regular expression, strip(), lower(), the path arithmetic and the       *)
(* string ordering are computed, not assumed.  Python's None is the empty  *)
(* sequence (no digest and no path of the model is empty).                 *)
(***************************************************************************)
EXTENDS Naturals, Sequences, FiniteSets, TLC

VARIABLES
    prog,            \* which tool runs: "md5check" or "md5_recursive"
    pc,              \* position of main
    exit_code,       \* value returned by main, once pc is "done"
    rootExists,      \* whether the directory given as --root exists
    \* ---- md5check.py
    failExit,        \* args.fail_exit
    manifests,       \* files under the root matching the pattern -> readable?
    fs,              \* the files manifests may name: path -> state
    md5_files,       \* main: the sorted list of discovered manifests
    idx,             \* main: index of the manifest of the current iteration
    had_issue,       \* main: the process-wide issue flag
    calls,           \* each finished call of process_md5_file: the manifest,
                     \* whether its summary was printed, the value returned
    total, correctos, incorrectos, no_encontrados,
    nread,           \* lines of the current manifest read so far
    line,            \* the line of the current loop iteration
    entry,           \* its match: expected_hash and filename, or no entry
    outcomes,        \* the status lines printed for the current manifest
    \* ---- md5_recursive.py
    absolute, sort,  \* args.absolute, args.sort
    tree,            \* regular files below the root: relative name -> kind
    toWalk,          \* names iter_files has not yielded yet
    entries,         \* collect_hashes: list of <<path, md5>>
    stdout,          \* lines printed on stdout
    shown,           \* display_path of each printed line
    printed, failed  \* main's two counters

vars == <<prog, pc, exit_code, rootExists, failExit, manifests, fs, md5_files,
          idx, had_issue, calls, total, correctos, incorrectos,
          no_encontrados, nread, line, entry, outcomes, absolute, sort, tree, toWalk,
          entries, stdout, shown, printed, failed>>

verifierVars == <<failExit, manifests, fs, md5_files, idx, had_issue, calls,
                  total, correctos, incorrectos, no_encontrados, nread, line,
                  entry, outcomes>>

generatorVars == <<absolute, sort, tree, toWalk, entries, stdout, shown,
                   printed, failed>>

---------------------------------------------------------------------------
(* Bounds and program constants *)

\* lines read from one manifest
MaxLines == 2

\* {32} of the entry pattern
HashLen == 32

\* {2,} of the entry pattern
MinSep == 2

\* '0'*32 of the generator's sentinel
SentinelLen == 32

\* length of hashlib's md5 hexdigest
HexDigestLen == 32

---------------------------------------------------------------------------
(* Characters and strings *)

\* the characters of the model, in code point order
Alphabet ==
    <<"\t", " ", "#", ".", "/", "0", "5", "A", "E", "O", "R", "a", "b", "d",
      "f", "g", "m", "n", "s", "t", "u", "x", "z">>

Ord(c) == CHOOSE i \in 1..Len(Alphabet) : Alphabet[i] = c

Rep(c, n) == [i \in 1..n |-> c]

\* [A-Fa-f0-9]
IsHex(c) == c \in {"0", "5", "A", "E", "a", "b", "d", "f"}

\* \s, and the characters str.strip() removes
IsSpace(c) == c \in {" ", "\t"}

LowerChar(c) ==
    CASE c = "A" -> "a"
      [] c = "E" -> "e"
      [] c = "O" -> "o"
      [] c = "R" -> "r"
      [] OTHER -> c

\* str.lower()
Lower(s) == [i \in 1..Len(s) |-> LowerChar(s[i])]

RECURSIVE LStrip(_)
\* str.lstrip()
LStrip(s) ==
    IF s # <<>> /\ IsSpace(Head(s)) THEN LStrip(Tail(s)) ELSE s

RECURSIVE RStrip(_)
RStrip(s) ==
    IF s # <<>> /\ IsSpace(s[Len(s)]) THEN RStrip(SubSeq(s, 1, Len(s) - 1))
    ELSE s

\* str.strip()
Strip(s) == RStrip(LStrip(s))

\* str.startswith
StartsWith(s, p) == Len(s) >= Len(p) /\ SubSeq(s, 1, Len(p)) = p

\* s1 < s2 as Python compares strings
RECURSIVE StrLess(_, _)
StrLess(s1, s2) ==
    IF s2 = <<>> THEN FALSE
    ELSE IF s1 = <<>> THEN TRUE
    ELSE IF Head(s1) # Head(s2) THEN Ord(Head(s1)) < Ord(Head(s2))
    ELSE StrLess(Tail(s1), Tail(s2))

None == <<>>


---------------------------------------------------------------------------
(* md5check.py: the entry pattern, re.compile(r'^([A-Fa-f0-9]{32})\s{2,}(.+)$') *)

\* number of \s characters of s from position i on
RECURSIVE SpaceRun(_, _)
SpaceRun(s, i) ==
    IF i <= Len(s) /\ IsSpace(s[i]) THEN 1 + SpaceRun(s, i + 1) ELSE 0

NoMatch == [ok |-> FALSE, g1 |-> <<>>, g2 |-> <<>>]

\* pattern.match(s): the 32 hex characters, then the longest run j >= 2 of
\* whitespace that still leaves (.+) at least one character (the greedy \s{2,}
\* gives characters back when the run reaches the end of the line).
PatternMatch(s) ==
    IF Len(s) < HashLen \/ \E i \in 1..HashLen : ~IsHex(s[i]) THEN NoMatch
    ELSE LET k == SpaceRun(s, HashLen + 1)
             js == {j \in MinSep..k : HashLen + j < Len(s)}
         IN  IF js = {} THEN NoMatch
             ELSE LET j == CHOOSE m \in js : \A n \in js : n <= m
                  IN  [ok |-> TRUE,
                       g1 |-> SubSeq(s, 1, HashLen),
                       g2 |-> SubSeq(s, HashLen + j + 1, Len(s))]

NoEntry == [ok |-> FALSE, expected_hash |-> <<>>, filename |-> <<>>]

\* one iteration of the loop up to total += 1: the blank/comment test, the
\* match on the line as read, and the two groups
ParseLine(l) ==
    IF Strip(l) = <<>> \/ StartsWith(LStrip(l), <<"#">>) THEN NoEntry
    ELSE LET m == PatternMatch(l)
         IN  IF ~m.ok THEN NoEntry
             ELSE [ok |-> TRUE, expected_hash |-> Lower(m.g1),
                   filename |-> Strip(m.g2)]

---------------------------------------------------------------------------
(* pathlib: paths are strings; their parts are the names between "/" *)

RECURSIVE SplitAt(_, _, _)
\* the parts of s, cur being the part read so far
SplitAt(s, cur, acc) ==
    IF s = <<>> THEN (IF cur = <<>> THEN acc ELSE Append(acc, cur))
    ELSE IF Head(s) = "/"
         THEN SplitAt(Tail(s), <<>>, IF cur = <<>> THEN acc ELSE Append(acc, cur))
         ELSE SplitAt(Tail(s), Append(cur, Head(s)), acc)

\* PurePath.parts without the root: empty parts are dropped ("a//b", "a/")
Parts(s) == SplitAt(s, <<>>, <<>>)

RECURSIVE JoinParts(_)
\* the absolute path with these parts
JoinParts(ps) ==
    IF ps = <<>> THEN <<>> ELSE <<"/">> \o Head(ps) \o JoinParts(Tail(ps))

ToPath(ps) == IF ps = <<>> THEN <<"/">> ELSE JoinParts(ps)

\* base / name: an absolute name replaces the base
PathJoin(base, name) ==
    IF StartsWith(name, <<"/">>) THEN name
    ELSE IF name = <<>> THEN base
    ELSE base \o <<"/">> \o name

RECURSIVE Normal(_, _)
\* "." dropped, ".." removes the part before it (none above the root)
Normal(ps, acc) ==
    IF ps = <<>> THEN acc
    ELSE IF Head(ps) = <<".">> THEN Normal(Tail(ps), acc)
    ELSE IF Head(ps) = <<".", ".">>
         THEN Normal(Tail(ps),
                     IF acc = <<>> THEN acc ELSE SubSeq(acc, 1, Len(acc) - 1))
         ELSE Normal(Tail(ps), Append(acc, Head(ps)))

\* Path.resolve() of an absolute path in a tree without symbolic links
Resolve(p) == ToPath(Normal(Parts(p), <<>>))

\* Path.parent
Parent(p) ==
    LET ps == Parts(p) IN ToPath(SubSeq(ps, 1, Len(ps) - 1))

RECURSIVE PartsLess(_, _)
\* p1 < p2 as lists of parts, which is how Path objects compare
PartsLess(p1, p2) ==
    IF p2 = <<>> THEN FALSE
    ELSE IF p1 = <<>> THEN TRUE
    ELSE IF Head(p1) # Head(p2) THEN StrLess(Head(p1), Head(p2))
    ELSE PartsLess(Tail(p1), Tail(p2))

PathLess(p1, p2) == PartsLess(Parts(p1), Parts(p2))


---------------------------------------------------------------------------
(* The world of the verifier: a root /t with a subdirectory /t/sub *)

Root == <<"/", "t">>

SubDir == Root \o <<"/", "s", "u", "b">>

ManifestName == <<"m", "d", "5", "s", "u", "m", ".", "t", "x", "t">>

\* the places where a file matching md5sum*.txt may be
ManifestPaths == {Root \o <<"/">> \o ManifestName,
                  SubDir \o <<"/">> \o ManifestName}

Dirs == {<<"/">>, Root, SubDir}

\* two md5 digests, as hexdigest() gives them: 32 lower-case hex characters
Da == Rep("a", HexDigestLen)

Db == Rep("b", HexDigestLen)

NameF == <<"f">>

NameDF == <<"d", " ", "f">>

ErrorMark == <<" ", " ", "#", " ", "E", "R", "R", "O", "R">>

Absent == [exists |-> FALSE, md5 |-> None]

Unreadable == [exists |-> TRUE, md5 |-> None]

File(d) == [exists |-> TRUE, md5 |-> d]

\* the file systems of the model: /t/f is absent, unreadable or has one of
\* the two contents; /t/sub holds f, "d f" and "f  # ERROR", the last one
\* unreadable where /t/f is
Worlds ==
    {[p \in {Root \o <<"/">> \o NameF, SubDir \o <<"/">> \o NameF,
             SubDir \o <<"/">> \o NameDF,
             SubDir \o <<"/">> \o NameF \o ErrorMark} |->
        IF p = Root \o <<"/">> \o NameF THEN st
        ELSE IF p = SubDir \o <<"/">> \o NameF THEN File(Db)
        ELSE IF p = SubDir \o <<"/">> \o NameDF THEN File(Da)
        ELSE IF st = Unreadable THEN Unreadable
        ELSE File(Da)] : st \in {Absent, Unreadable, File(Da), File(Db)}}

\* Path.exists()
Exists(p) == p \in Dirs \/ (p \in DOMAIN fs /\ fs[p].exists)

\* a compute_md5 that reports a failed read with the generator's sentinel
compute_md5_Sentinel(p) ==
    IF p \in DOMAIN fs /\ fs[p].md5 # <<>> THEN fs[p].md5
    ELSE [i \in 1..HexDigestLen |-> "0"]

\* compute_md5: the digest, or None when the file cannot be read (a
\* directory cannot)
compute_md5(p) == IF p \in DOMAIN fs THEN fs[p].md5 ELSE None

---------------------------------------------------------------------------
(* md5_recursive.py: the output line *)

\* lines 94-98: the digest or the 32-zero sentinel, two spaces, the path
FormatLine(md5, display_path) ==
    IF md5 = None
    THEN Rep("0", SentinelLen) \o <<" ", " ">> \o display_path \o ErrorMark
    ELSE md5 \o <<" ", " ">> \o display_path

---------------------------------------------------------------------------
(* The manifest lines of the model *)

Sep2 == <<" ", " ">>

Digests ==
    {Da, Db, Rep("A", HashLen), <<"A">> \o Rep("a", HashLen - 1),
     Rep("0", HashLen),
     <<"g">> \o Rep("a", HashLen - 1),       \* not hexadecimal
     Rep("a", HashLen - 1),                  \* too short
     Rep("a", HashLen + 1)}                  \* too long

Separators ==
    {<<>>, <<" ">>, <<"\t">>, <<" ", "\t">>, <<" ", " ", " ">>}

Filenames ==
    {<<>>, <<" ">>, NameF \o <<" ">>, NameDF, <<".", ".", "/">> \o NameF,
     Root \o <<"/">> \o NameF, NameF \o <<" ", " ">> \o <<"b">>}

Lines ==
    {<<>>, <<" ", " ">>, <<"#", " ", "a">>, <<" ", "#", " ", "a">>}
    \cup {d \o Sep2 \o NameF : d \in Digests}
    \cup {Da \o sp \o NameF : sp \in Separators}
    \cup {Da \o Sep2 \o fn : fn \in Filenames}
    \cup {<<" ">> \o Da \o Sep2 \o NameF, <<"\t">> \o Db \o Sep2 \o NameDF}
    \cup {Rep("A", HashLen) \o Sep2 \o NameDF}
    \cup {FormatLine(None, n) : n \in {NameF, NameDF}}

\* what the generator prints for a file it could not read
SentinelLines == {FormatLine(None, n) : n \in {NameF, NameDF}}


---------------------------------------------------------------------------
(* md5check.py *)

RECURSIVE SortPaths(_)
\* sorted(paths): the least path first
SortPaths(S) ==
    IF S = {} THEN <<>>
    ELSE LET least == CHOOSE p \in S : \A q \in S \ {p} : PathLess(p, q)
         IN  <<least>> \o SortPaths(S \ {least})

RECURSIVE ReversePaths(_)
\* the paths in descending order
ReversePaths(S) ==
    IF S = {} THEN <<>>
    ELSE LET least == CHOOSE p \in S : \A q \in S \ {p} : PathLess(p, q)
         IN  ReversePaths(S \ {least}) \o <<least>>

\* root.rglob(pattern): nothing below a root that does not exist
Rglob == IF rootExists THEN DOMAIN manifests ELSE {}

find_md5sum_files_Unsorted == ReversePaths(Rglob)

find_md5sum_files == SortPaths(Rglob)

\* classification against the root instead of the manifest's directory
Classify_AgainstRoot(dir, e) ==
    LET file_path == Resolve(PathJoin(Root, e.filename))
    IN  IF Exists(file_path)
        THEN LET actual_hash == compute_md5(file_path)
             IN  IF actual_hash = None THEN "FAIL"
                 ELSE IF Lower(actual_hash) = e.expected_hash THEN "OK"
                 ELSE "FAIL"
        ELSE "NOT_FOUND"

\* lines 89-109: the status printed for entry e of a manifest in dir
Classify(dir, e) ==
    LET file_path == Resolve(PathJoin(dir, e.filename))
    IN  IF Exists(file_path)
        THEN LET actual_hash == compute_md5(file_path)
             IN  IF actual_hash = None THEN "FAIL"
                 ELSE IF Lower(actual_hash) = e.expected_hash THEN "OK"
                 ELSE "FAIL"
        ELSE "NOT_FOUND"

\* the manifest of the current iteration of main's loop
md5file == md5_files[idx]

\* line 64
base_dir == Parent(md5file)

\* main, lines 132-143: discovery; no manifest is the result 0
V_Find ==
    /\ prog = "md5check" /\ pc = "start"
    /\ md5_files' = find_md5sum_files
    /\ IF md5_files' = <<>>
       THEN pc' = "done" /\ exit_code' = 0
       ELSE pc' = "loop" /\ UNCHANGED exit_code
    /\ idx' = 1
    /\ had_issue' = FALSE
    /\ UNCHANGED <<prog, rootExists, failExit, manifests, fs, calls, total,
                   correctos, incorrectos, no_encontrados, nread, line, entry,
                   outcomes>>
    /\ UNCHANGED generatorVars

\* what main does with the value process_md5_file returned (lines 146-147)
FlagAfter_NoneCounts(flag, ret) == flag \/ ret # "False"

FlagAfter(flag, ret) == flag \/ ret = "True"

\* process_md5_file, lines 60-72: the banner and the read of the manifest.
\* A manifest that cannot be read ends the call with a bare return.
V_Open ==
    /\ prog = "md5check" /\ pc = "loop" /\ idx <= Len(md5_files)
    /\ total' = 0 /\ correctos' = 0 /\ incorrectos' = 0
    /\ no_encontrados' = 0
    /\ nread' = 0 /\ line' = <<>> /\ entry' = NoEntry /\ outcomes' = <<>>
    /\ IF manifests[md5file]
       THEN /\ pc' = "lines"
            /\ UNCHANGED <<calls, had_issue, idx>>
       ELSE /\ calls' = Append(calls, [file |-> md5file, summary |-> FALSE,
                                       ret |-> "None"])
            /\ had_issue' = FlagAfter(had_issue, "None")
            /\ idx' = idx + 1
            /\ pc' = "loop"
    /\ UNCHANGED <<prog, exit_code, rootExists, failExit, manifests, fs,
                   md5_files>>
    /\ UNCHANGED generatorVars

\* the match of each line of the model, computed once
Parsed == [l \in Lines |-> ParseLine(l)]

\* a counter that misses the files not found
Tally_Miss(n, status, tag) ==
    IF status = tag /\ tag # "NOT_FOUND" THEN n + 1 ELSE n

\* correctos += 1, incorrectos += 1, no_encontrados += 1: the counter of the
\* branch taken
Tally(n, status, tag) == IF status = tag THEN n + 1 ELSE n

\* lines 76-109: one iteration of the loop over the lines
V_Line ==
    /\ prog = "md5check" /\ pc = "lines" /\ nread < MaxLines
    /\ \E l \in Lines :
        LET e == Parsed[l]
            status == Classify(base_dir, e)
        IN  /\ line' = l
            /\ entry' = e
            /\ nread' = nread + 1
            /\ IF e.ok
               THEN /\ total' = total + 1
                    /\ outcomes' = Append(outcomes,
                            [filename |-> e.filename, status |-> status])
                    /\ correctos' = Tally(correctos, status, "OK")
                    /\ incorrectos' = Tally(incorrectos, status, "FAIL")
                    /\ no_encontrados' =
                            Tally(no_encontrados, status, "NOT_FOUND")
               ELSE UNCHANGED <<total, outcomes, correctos, incorrectos,
                                no_encontrados>>
    /\ UNCHANGED <<prog, pc, exit_code, rootExists, failExit, manifests, fs,
                   md5_files, idx, had_issue, calls>>
    /\ UNCHANGED generatorVars

\* lines 111-119 and 146-147: the summary, the returned flag, main's update;
\* the locals of the call end with it
V_Summary ==
    /\ prog = "md5check" /\ pc = "lines"
    /\ LET ret == IF incorrectos > 0 \/ no_encontrados > 0 THEN "True"
                  ELSE "False"
       IN  /\ calls' = Append(calls, [file |-> md5file, summary |-> TRUE,
                                      ret |-> ret])
           /\ had_issue' = FlagAfter(had_issue, ret)
    /\ idx' = idx + 1
    /\ pc' = "loop"
    /\ total' = 0 /\ correctos' = 0 /\ incorrectos' = 0
    /\ no_encontrados' = 0
    /\ nread' = 0 /\ line' = <<>> /\ entry' = NoEntry /\ outcomes' = <<>>
    /\ UNCHANGED <<prog, exit_code, rootExists, failExit, manifests, fs,
                   md5_files>>
    /\ UNCHANGED generatorVars

\* lines 149-154: the exit status
V_Exit ==
    /\ prog = "md5check" /\ pc = "loop" /\ idx > Len(md5_files)
    /\ exit_code' = IF failExit /\ had_issue THEN 2 ELSE 0
    /\ pc' = "done"
    /\ UNCHANGED <<prog, rootExists>>
    /\ UNCHANGED verifierVars
    /\ UNCHANGED generatorVars


---------------------------------------------------------------------------
(* md5_recursive.py *)

\* the names a regular file below the root may have
GenNames == {<<"a">>, <<"b">>, NameF}

\* where the symbolic links of the model point: a readable file outside the root
LinkTarget == <<"/", "x", "/", "z">>

\* "file": readable; "unreadable": open() fails; "link": a symbolic link to
\* LinkTarget (is_file() follows links, so iter_files yields it)
Kinds == {"file", "unreadable", "link"}

\* the path iter_files yields for name n: Path(dirpath) / name
WalkPath(n) == PathJoin(Root, n)

\* the name of a yielded path
NameOf(path) == LET ps == Parts(path) IN ps[Len(ps)]

\* compute_md5 of the generator (lines 33-43)
gen_compute_md5(path) ==
    IF tree[NameOf(path)] = "unreadable" THEN None ELSE Da

RECURSIVE JoinRel(_)
\* the parts joined by "/", without a root
JoinRel(ps) ==
    IF ps = <<>> THEN <<>>
    ELSE IF Len(ps) = 1 THEN Head(ps)
    ELSE Head(ps) \o <<"/">> \o JoinRel(Tail(ps))

\* str(path.relative_to(root)) for a path below root
RelativeTo(path, root) ==
    JoinRel(SubSeq(Parts(path), Len(Parts(root)) + 1, Len(Parts(path))))

\* str(path.resolve()): a symbolic link resolves to its target
ResolveStr(path) ==
    IF tree[NameOf(path)] = "link" THEN LinkTarget ELSE Resolve(path)

\* line 93
DisplayPath(path) ==
    IF absolute THEN ResolveStr(path) ELSE RelativeTo(path, Root)

RECURSIVE InsertByPath(_, _)
\* t put after the entries whose str(path) is not greater
InsertByPath(es, t) ==
    IF es = <<>> THEN <<t>>
    ELSE IF StrLess(t[1], Head(es)[1]) THEN <<t>> \o es
    ELSE <<Head(es)>> \o InsertByPath(Tail(es), t)

RECURSIVE SortByPath(_)
\* entries.sort(key=lambda t: str(t[0])), a stable sort
SortByPath(es) ==
    IF es = <<>> THEN <<>>
    ELSE InsertByPath(SortByPath(SubSeq(es, 1, Len(es) - 1)), es[Len(es)])

\* an output loop that leaves out the files whose digest is missing
Emit_SkipUnread(out, md5, display_path) ==
    IF md5 = None THEN out ELSE Append(out, FormatLine(md5, display_path))

\* lines 94-99: one line printed per entry
Emit(out, md5, display_path) == Append(out, FormatLine(md5, display_path))

\* lines 77-80: a root that does not exist ends the run with 2
G_Start ==
    /\ prog = "md5_recursive" /\ pc = "start"
    /\ IF ~rootExists
       THEN pc' = "done" /\ exit_code' = 2 /\ UNCHANGED toWalk
       ELSE pc' = "walk" /\ toWalk' = DOMAIN tree /\ UNCHANGED exit_code
    /\ UNCHANGED <<prog, rootExists, absolute, sort, tree, entries, stdout,
                   shown, printed, failed>>
    /\ UNCHANGED verifierVars

\* collect_hashes, lines 62-64: the next file of the walk, in os.walk's order
G_Collect ==
    /\ prog = "md5_recursive" /\ pc = "walk"
    /\ \E n \in toWalk :
        /\ entries' = Append(entries,
                             <<WalkPath(n), gen_compute_md5(WalkPath(n))>>)
        /\ toWalk' = toWalk \ {n}
    /\ UNCHANGED <<prog, pc, exit_code, rootExists, absolute, sort, tree,
                   stdout, shown, printed, failed>>
    /\ UNCHANGED verifierVars

\* lines 86-91: the walk is over; the optional sort
G_Sort ==
    /\ prog = "md5_recursive" /\ pc = "walk" /\ toWalk = {}
    /\ entries' = IF sort THEN SortByPath(entries) ELSE entries
    /\ printed' = 0 /\ failed' = 0
    /\ pc' = "print"
    /\ UNCHANGED <<prog, exit_code, rootExists, absolute, sort, tree, toWalk,
                   stdout, shown>>
    /\ UNCHANGED verifierVars

\* lines 92-99: one iteration of the output loop
G_Print ==
    /\ prog = "md5_recursive" /\ pc = "print" /\ Len(shown) < Len(entries)
    /\ LET t == entries[Len(shown) + 1]
           display_path == DisplayPath(t[1])
       IN  /\ shown' = Append(shown, display_path)
           /\ stdout' = Emit(stdout, t[2], display_path)
           /\ IF t[2] = None
              THEN failed' = failed + 1 /\ UNCHANGED printed
              ELSE printed' = printed + 1 /\ UNCHANGED failed
    /\ UNCHANGED <<prog, pc, exit_code, rootExists, absolute, sort, tree,
                   toWalk, entries>>
    /\ UNCHANGED verifierVars

\* lines 101-107: the summary and the result 0
G_Return ==
    /\ prog = "md5_recursive" /\ pc = "print" /\ Len(shown) = Len(entries)
    /\ exit_code' = 0
    /\ pc' = "done"
    /\ UNCHANGED <<prog, rootExists>>
    /\ UNCHANGED generatorVars
    /\ UNCHANGED verifierVars

---------------------------------------------------------------------------
(* The specification *)

\* a function with an empty domain
Empty == [x \in {} |-> FALSE]

InitCommon ==
    /\ pc = "start"
    /\ exit_code = 0
    /\ rootExists \in BOOLEAN
    /\ md5_files = <<>> /\ idx = 1 /\ had_issue = FALSE /\ calls = <<>>
    /\ total = 0 /\ correctos = 0 /\ incorrectos = 0 /\ no_encontrados = 0
    /\ nread = 0 /\ line = <<>> /\ entry = NoEntry /\ outcomes = <<>>
    /\ toWalk = {} /\ entries = <<>> /\ stdout = <<>> /\ shown = <<>>
    /\ printed = 0 /\ failed = 0

\* the verifier's command line and the tree it is run on
InitVerifier ==
    /\ prog = "md5check"
    /\ failExit \in BOOLEAN
    /\ fs \in Worlds
    /\ \E S \in SUBSET ManifestPaths :
         /\ manifests \in [S -> BOOLEAN]
         /\ rootExists \/ S = {}
    /\ absolute = FALSE /\ sort = TRUE /\ tree = Empty

\* the generator's command line and the tree it is run on
InitGenerator ==
    /\ prog = "md5_recursive"
    /\ absolute \in BOOLEAN
    /\ sort \in BOOLEAN
    /\ \E S \in SUBSET GenNames :
         /\ tree \in [S -> Kinds]
         /\ rootExists \/ S = {}
    /\ failExit = FALSE /\ manifests = Empty /\ fs \in {Empty}

Init == InitCommon /\ (InitVerifier \/ InitGenerator)

Next ==
    \/ V_Find
    \/ V_Open
    \/ V_Line
    \/ V_Summary
    \/ V_Exit
    \/ G_Start
    \/ G_Collect
    \/ G_Sort
    \/ G_Print
    \/ G_Return

Spec == Init /\ [][Next]_vars


---------------------------------------------------------------------------
(* Properties *)

\* the verifier has just finished an iteration of the loop over the lines
AfterLine == prog = "md5check" /\ pc = "lines" /\ nread > 0

\* the verifier has just printed the status of an entry
AfterEntry == AfterLine /\ entry.ok

LastOutcome == outcomes[Len(outcomes)]

\* the number of status lines with this tag
CountStatus(tag) ==
    Cardinality({i \in 1..Len(outcomes) : outcomes[i].status = tag})

\* the file an entry names, seen from the manifest that holds it
NamedFile == Resolve(PathJoin(Parent(md5file), entry.filename))

\* C1: the status of an entry is NOT_FOUND when the file it names, resolved
\* against the manifest's directory, does not exist; else FAIL when its
\* digest cannot be computed; else OK when the digest equals the digest
\* written in the line, both lower-cased, and FAIL when it does not.  A
\* failed computation is counted in incorrectos, not in no_encontrados.
C1_ClassificationRule ==
    AfterEntry =>
        /\ Len(outcomes) > 0
        /\ LastOutcome.status =
              IF ~Exists(NamedFile) THEN "NOT_FOUND"
              ELSE IF compute_md5(NamedFile) = None THEN "FAIL"
              ELSE IF Lower(compute_md5(NamedFile))
                        = Lower(SubSeq(line, 1, HashLen)) THEN "OK"
              ELSE "FAIL"
        /\ incorrectos = CountStatus("FAIL")
        /\ no_encontrados = CountStatus("NOT_FOUND")

\* an upper-case digest matched the file beside the manifest, while an
\* earlier entry of the same manifest named a file that cannot be read
C1_Witness ==
    /\ AfterEntry
    /\ Len(outcomes) = 2
    /\ outcomes[1].status = "FAIL"
    /\ Exists(Resolve(PathJoin(Parent(md5file), outcomes[1].filename)))
    /\ compute_md5(Resolve(PathJoin(Parent(md5file), outcomes[1].filename)))
          = None
    /\ line[1] = "A"
    /\ Parent(md5file) = SubDir
    /\ LastOutcome.status = "OK"

\* what one iteration of the loop does to the counters and the output
LineStep ==
    (nread' = nread + 1) =>
        IF entry'.ok
        THEN /\ total' = total + 1
             /\ correctos' + incorrectos' + no_encontrados'
                   = correctos + incorrectos + no_encontrados + 1
             /\ correctos' >= correctos
             /\ incorrectos' >= incorrectos
             /\ no_encontrados' >= no_encontrados
             /\ Len(outcomes') = Len(outcomes) + 1
             /\ SubSeq(outcomes', 1, Len(outcomes)) = outcomes
             /\ outcomes'[Len(outcomes')].filename = entry'.filename
        ELSE UNCHANGED <<total, correctos, incorrectos, no_encontrados,
                         outcomes>>

\* the counters agree with each other and with the output
Balanced ==
    /\ total = correctos + incorrectos + no_encontrados
    /\ Len(outcomes) = total
    /\ correctos = CountStatus("OK")
    /\ incorrectos = CountStatus("FAIL")
    /\ no_encontrados = CountStatus("NOT_FOUND")

\* C2: while a manifest is processed, up to its summary, total = correctos +
\* incorrectos + no_encontrados; a line accepted as an entry adds one to
\* total and to exactly one of the three counters and appends its outcome
\* after the earlier ones; any other line changes nothing.
C2_CountersBalanced ==
    /\ [](prog = "md5check" /\ pc = "lines" => Balanced)
    /\ [][LineStep]_vars

\* two lines naming the same file gave two outcomes
C2_Witness ==
    /\ AfterEntry
    /\ total = 2
    /\ outcomes[1].filename = outcomes[2].filename
    /\ outcomes[1].status # outcomes[2].status

\* the manifests main has called process_md5_file on, in order
CalledFiles == [i \in 1..Len(calls) |-> calls[i].file]

\* strictly ascending as paths, so without repetition
Ascending(ps) ==
    \A i \in 1..Len(ps) : \A j \in 1..Len(ps) :
        i < j => PathLess(ps[i], ps[j])

VerifierDone == prog = "md5check" /\ pc = "done"

\* C3: main returns 2 when --fail-exit is set and some processed manifest
\* had incorrectos > 0 or no_encontrados > 0, and 0 otherwise (so 0 without
\* manifests); the value a manifest returns says whether it was clean; every
\* discovered manifest is processed once, in ascending path order.
C3_ExitStatus ==
    /\ [](VerifierDone =>
            /\ exit_code = IF failExit
                              /\ \E i \in 1..Len(calls) : calls[i].ret = "True"
                           THEN 2 ELSE 0
            /\ Ascending(CalledFiles)
            /\ {CalledFiles[i] : i \in 1..Len(calls)} = Rglob)
    /\ [][pc = "lines" /\ pc' = "loop" =>
            /\ Len(calls') = Len(calls) + 1
            /\ calls'[Len(calls')].file = md5file
            /\ (calls'[Len(calls')].ret = "True")
                  <=> (incorrectos > 0 \/ no_encontrados > 0)
            /\ (calls'[Len(calls')].ret = "False")
                  <=> (incorrectos = 0 /\ no_encontrados = 0)]_vars

\* the first of two manifests had failures, the second was processed and
\* was clean, and the run returned 2
C3_Witness ==
    /\ VerifierDone
    /\ failExit
    /\ Len(calls) = 2
    /\ calls[1].ret = "True"
    /\ calls[2].ret = "False"
    /\ exit_code = 2


\* the text of a line up to its first whitespace character
RECURSIVE FirstWord(_)
FirstWord(s) ==
    IF s = <<>> \/ IsSpace(Head(s)) THEN <<>>
    ELSE <<Head(s)>> \o FirstWord(Tail(s))

\* the line has text, is not a comment, and its digest is not 32 hexadecimal
\* characters, or fewer than two whitespace characters follow the digest, or
\* no filename follows them
Malformed(l) ==
    LET s == Strip(l)
        w == FirstWord(s)
        k == SpaceRun(s, Len(w) + 1)
    IN  /\ s # <<>>
        /\ Head(s) # "#"
        /\ \/ Len(w) # HashLen
           \/ \E i \in 1..Len(w) : ~IsHex(w[i])
           \/ k < MinSep
           \/ Strip(SubSeq(s, Len(w) + k + 1, Len(s))) = <<>>

\* C4: a line with fewer than two separating whitespace characters, a
\* digest that is not 32 hexadecimal characters, or an empty filename gives
\* no entry: it is not counted and prints no status, so a manifest that
\* starts with such a line still has total = 0 after it.
C4_MalformedExcluded ==
    (AfterLine /\ Malformed(line)) =>
        /\ ~entry.ok
        /\ nread = 1 => (total = 0 /\ outcomes = <<>>)

\* the entry the line grammar gives for a line: the line is stripped, and
\* when it has text, is not a comment and is 32 hexadecimal characters, two
\* or more whitespace characters and a filename, the digest lower-cased and
\* what follows the whitespace
GrammarEntry(l) ==
    LET s == Strip(l)
        k == SpaceRun(s, HashLen + 1)
    IN  IF /\ s # <<>>
           /\ Head(s) # "#"
           /\ Len(s) > HashLen
           /\ \A i \in 1..HashLen : IsHex(s[i])
           /\ k >= MinSep
           /\ HashLen + k < Len(s)
        THEN [ok |-> TRUE,
              expected_hash |-> Lower(SubSeq(s, 1, HashLen)),
              filename |-> Strip(SubSeq(s, HashLen + k + 1, Len(s)))]
        ELSE NoEntry

\* C5: a line is an entry exactly when its stripped form is one by the
\* grammar, with the digest lower-cased and the filename whole; whitespace
\* before or after the line changes nothing.
C5_GrammarOnStrippedLine == AfterLine => entry = GrammarEntry(line)

\* C6: the line the generator prints for a file it could not read is never
\* given the status OK by the verifier.
C6_SentinelNeverOK ==
    (AfterEntry /\ line \in SentinelLines) => LastOutcome.status # "OK"

\* a sentinel line named a file that exists and can be read, and failed
C6_Witness ==
    /\ AfterEntry
    /\ line \in SentinelLines
    /\ Exists(NamedFile)
    /\ compute_md5(NamedFile) # None
    /\ LastOutcome.status = "FAIL"

\* C7: with a root that does not exist the run ends with a non-zero status:
\* 2 and nothing walked or printed for the generator, a non-zero status for
\* the verifier.
C7_MissingRootFails ==
    (pc = "done" /\ ~rootExists) =>
        /\ exit_code # 0
        /\ prog = "md5_recursive" =>
              (exit_code = 2 /\ entries = <<>> /\ stdout = <<>>)

GeneratorDone == prog = "md5_recursive" /\ pc = "done" /\ rootExists

\* the 32-zero line of an entry without digest
IsSentinelLine(l) ==
    /\ Len(l) > SentinelLen + Len(ErrorMark)
    /\ \A i \in 1..SentinelLen : l[i] = "0"
    /\ SubSeq(l, Len(l) - Len(ErrorMark) + 1, Len(l)) = ErrorMark

\* C8: for an existing root, every file the walk yields has exactly one
\* entry and one output line; a file without digest has the sentinel line
\* and is counted in failed; processed = computed + errored = lines printed.
C8_OneLinePerFile ==
    GeneratorDone =>
        /\ Len(entries) = Cardinality(DOMAIN tree)
        /\ \A n \in DOMAIN tree :
              \E i \in 1..Len(entries) : entries[i][1] = WalkPath(n)
        /\ Len(stdout) = Len(entries)
        /\ Len(entries) = printed + failed
        /\ failed = Cardinality({n \in DOMAIN tree : tree[n] = "unreadable"})
        /\ \A i \in 1..Len(entries) :
              (tree[NameOf(entries[i][1])] = "unreadable")
                 <=> IsSentinelLine(stdout[i])

\* a run over a file that could be read and one that could not
C8_Witness ==
    /\ GeneratorDone
    /\ printed >= 1
    /\ failed >= 1
    /\ Len(stdout) >= 2

\* C9: with sorting on, the paths of the printed lines never descend.
C9_SortedAsDisplayed ==
    (prog = "md5_recursive" /\ pc = "done" /\ sort) =>
        \A i \in 1..Len(shown) : \A j \in 1..Len(shown) :
            i < j => ~StrLess(shown[j], shown[i])

\* C10: a manifest that cannot be read ends its call with None and without
\* summary or counted entry; None does not set the issue flag; main goes on
\* to the manifests left; a run with no other problem returns 0.
C10_UnreadableManifest ==
    prog = "md5check" =>
        /\ \A i \in 1..Len(calls) :
              ~manifests[calls[i].file]
                 => (~calls[i].summary /\ calls[i].ret = "None")
        /\ (pc = "loop" /\ idx > 1 /\ ~manifests[md5_files[idx - 1]])
              => (total = 0 /\ outcomes = <<>>)
        /\ pc \in {"loop", "lines"}
              => (had_issue <=> \E i \in 1..Len(calls) : calls[i].ret = "True")
        /\ pc = "done" =>
              /\ Len(calls) = Len(md5_files)
              /\ (\A i \in 1..Len(calls) : calls[i].ret # "True")
                    => exit_code = 0

\* --fail-exit, an unreadable manifest, then a clean one: the result is 0
C10_Witness ==
    /\ VerifierDone
    /\ failExit
    /\ Len(calls) = 2
    /\ calls[1].ret = "None"
    /\ calls[2].summary
    /\ exit_code = 0

=============================================================================
